---- MODULE Spec2Model ----
(***************************************************************************)
(* Model of the market-quote route handler (src/src/app/api/scrape/route.ts,*)
(* the MOA Open Data revision, lines 244-476): the snapshot store          *)
(* (saveBackup / getLatestBackup over data/backup/latest_<type>.json), the *)
(* upstream fetch with its category filter, and the fallback resolution of *)
(* GET.  Every `await` of the handler is one step of the model, so two     *)
(* overlapping requests interleave exactly where the event loop lets them. *)
(***************************************************************************)
EXTENDS Integers, Sequences, FiniteSets, TLC

VARIABLES
    dirExists,  \* BACKUP_DIR exists on disk
    files,      \* file name -> file content (a sequence of JSON tokens)
    pc,         \* per request: the await the handler is suspended at
    date,       \* per request: searchParams.get('date')
    type,       \* per request: searchParams.get('type') || 'Vegetable'
    rawData,    \* per request: the records of the upstream answer
    data,       \* per request: the mapped, filtered rows of the live fetch
    error,      \* per request: the exception caught by GET's catch block
    io,         \* per request: the I/O calls issued so far, in order
    resp,       \* per request: the NextResponse returned
    home,       \* the page component Home: its React state and fetchData's position
    quoteTable  \* the component QuoteTable: its React state

vars == <<dirExists, files, pc, date, type, rawData, data, error, io, resp, home,
          quoteTable>>

-----------------------------------------------------------------------------
(* Bounds                                                                  *)

\* Longest upstream answer (number of records the service holds for a day).
MaxRaw == 2

\* The user stops querying once the suggestion pool holds this many rows.
MaxPool == 1

\* The user adds no row to a table of this many rows.
MaxRows == 2

\* The overlapping invocations of GET.
Requests == {1, 2}

-----------------------------------------------------------------------------
(* Values                                                                  *)

\* A date string is the sequence of its pieces, so that the '/' -> '.'
\* rewriting of the handler is a real conversion.
Date1 == <<"114", "/", "01", "/", "01">>
Date2 == <<"113", "/", "05", "/", "01">>
Latest == <<"latest">>
Unknown == <<"Unknown">>
EmptyString == <<>>

Dates == {Date1, Date2, Latest}

\* date.replace(/\//g, '.')
ApiDate(d) == [i \in 1..Len(d) |-> IF d[i] = "/" THEN "." ELSE d[i]]

ApiDates == {ApiDate(d) : d \in Dates}

\* The query strings a client can send: date and type each present or not.
SearchParams ==
    {[date |-> d, type |-> t] : d \in Dates \cup {EmptyString},
                                t \in {"Vegetable", "Fruit", ""}}
    \cup {[date |-> d] : d \in Dates \cup {EmptyString}}
    \cup {[type |-> t] : t \in {"Vegetable", "Fruit"}}

Types == {"Vegetable", "Fruit"}

\* interface MOAData: one upstream record (the market fields, constant for
\* the one market queried, are left out).
Crops == {"LA1", "LB2", "F1"}

DayPrice(apiDate) == IF apiDate = ApiDate(Date1) THEN 20
                     ELSE IF apiDate = ApiDate(Date2) THEN 30 ELSE 40

MOAData(crop, apiDate) ==
    [tradeDate |-> apiDate,
     typeCode  |-> IF crop = "F1" THEN "N05" ELSE "N04",
     cropCode  |-> crop,
     cropName  |-> IF crop = "LA1" THEN "cabbage"
                   ELSE IF crop = "LB2" THEN "radish" ELSE "banana",
     upper     |-> DayPrice(apiDate) + 5,
     middle    |-> DayPrice(apiDate),
     lower     |-> DayPrice(apiDate) - 5,
     average   |-> DayPrice(apiDate),
     volume    |-> 100]

\* Sequences of at most n elements of S, no element twice.
SeqsUpTo(S, n) ==
    UNION {{s \in [1..k -> S] : \A i, j \in 1..k : s[i] = s[j] => i = j} : k \in 0..n}

\* What the service can answer for a day: at most one record per crop, in
\* any order.
RawAnswers(apiDate) == SeqsUpTo({MOAData(c, apiDate) : c \in Crops}, MaxRaw)

-----------------------------------------------------------------------------
(* Pure functions of the handler                                           *)

RECURSIVE SelectSeq2(_, _)
\* Array.prototype.filter on the category code.
SelectSeq2(s, code) ==
    IF s = <<>> THEN <<>>
    ELSE IF Head(s).typeCode = code
         THEN <<Head(s)>> \o SelectSeq2(Tail(s), code)
         ELSE SelectSeq2(Tail(s), code)

\* Variant: no category filter.
filteredDataKeepsAll(raw, t) == raw

\* Variant: a type that is not Fruit is filtered as Vegetable.
filteredDataDefaultsVegetable(raw, t) ==
    IF t = "Fruit" THEN SelectSeq2(raw, "N05") ELSE SelectSeq2(raw, "N04")

filteredData(raw, t) ==
    IF t = "Vegetable" THEN SelectSeq2(raw, "N04")
    ELSE IF t = "Fruit" THEN SelectSeq2(raw, "N05")
    ELSE raw

\* The record -> MarketData mapping (numbers become strings).
MarketData(item) ==
    [productCode       |-> item.cropCode,
     productName       |-> item.cropName,
     upperPrice        |-> ToString(item.upper),
     middlePrice       |-> ToString(item.middle),
     lowerPrice        |-> ToString(item.lower),
     averagePrice      |-> ToString(item.average),
     transactionVolume |-> ToString(item.volume)]

mapData(filtered) == [i \in 1..Len(filtered) |-> MarketData(filtered[i])]

\* Variant: one file for all categories.
filenameShared(t) == "latest.json"

\* `latest_${type}.json`
filename(t) == "latest_" \o t \o ".json"

\* Variant: the file holds the bare row array, the date is not stored.
stringifyRowsOnly(content) ==
    <<[k |-> "["]>>
    \o [i \in 1..Len(content.data) |-> [k |-> "row", v |-> content.data[i]]]
    \o <<[k |-> "]"]>>

\* JSON.stringify of the snapshot wrapper { date, data }, as its tokens.
stringify(content) ==
    <<[k |-> "{date:", v |-> content.date]>>
    \o [i \in 1..Len(content.data) |-> [k |-> "row", v |-> content.data[i]]]
    \o <<[k |-> "}"]>>

IsRows(s, from, to) == \A i \in from..to : s[i].k = "row"

RowsOf(s, from, to) == [i \in 1..(to - from + 1) |-> s[from + i - 1].v]

threw == [threw |-> TRUE]

\* JSON.parse: the wrapper object, a bare array, or a SyntaxError.
parse(s) ==
    LET n == Len(s) IN
    IF n >= 2 /\ s[1].k = "{date:" /\ s[n].k = "}" /\ IsRows(s, 2, n - 1)
    THEN [date |-> s[1].v, data |-> RowsOf(s, 2, n - 1)]
    ELSE IF n >= 2 /\ s[1].k = "[" /\ s[n].k = "]" /\ IsRows(s, 2, n - 1)
    THEN [array |-> RowsOf(s, 2, n - 1)]
    ELSE threw

null == [null |-> TRUE]

\* Variant: only the wrapper object is accepted.
getLatestBackupObjectOnly(fs, t) ==
    IF filename(t) \notin DOMAIN fs THEN null
    ELSE LET content == parse(fs[filename(t)]) IN
         IF content # threw /\ "date" \in DOMAIN content /\ content.date # EmptyString
         THEN content
         ELSE null

\* getLatestBackup on a given disk.
getLatestBackupOn(fs, t) ==
    IF filename(t) \notin DOMAIN fs THEN null          \* readFile throws
    ELSE LET content == parse(fs[filename(t)]) IN
         IF content = threw THEN null
         ELSE IF "date" \in DOMAIN content /\ content.date # EmptyString
              THEN content
         ELSE IF "array" \in DOMAIN content
              THEN [date |-> Unknown, data |-> content.array]
         ELSE null

getLatestBackup(t) == getLatestBackupOn(files, t)

\* A write of `text` at offset 0 through a descriptor opened earlier: what
\* the file held beyond the written length stays.
Overlay(old, text) == text \o SubSeq(old, Len(text) + 1, Len(old))

\* fs.writeFile, first half: open with flag 'w' creates or truncates.
openForWrite(fs, f) == (f :> <<>>) @@ fs

\* fs.writeFile, second half: the text goes out through the descriptor.
writeAt(fs, f, text) == [fs EXCEPT ![f] = Overlay(@, text)]

\* Variant: the snapshot is appended to the file (fs.appendFile).
saveBackupAppends(fs, d, t, rows) ==
    LET f == filename(t)
        text == stringify([date |-> d, data |-> rows])
    IN (f :> ((IF f \in DOMAIN fs THEN fs[f] ELSE <<>>) \o text)) @@ fs

\* saveBackup run to completion on a given disk.
saveBackupOn(fs, d, t, rows) ==
    LET f == filename(t)
    IN writeAt(openForWrite(fs, f), f, stringify([date |-> d, data |-> rows]))

\* JSON.stringify(data) of the earlier revision: the bare row array.
stringifyArray(rows) ==
    <<[k |-> "["]>>
    \o [i \in 1..Len(rows) |-> [k |-> "row", v |-> rows[i]]]
    \o <<[k |-> "]"]>>

-----------------------------------------------------------------------------
(* Responses                                                               *)

NoResponse == [http |-> 0]

MissingDateResponse == [http |-> 400, body |-> [error |-> <<"Date is required">>]]

FreshResponse(d, t, rows) ==
    [http |-> 200,
     body |-> [status |-> "fresh", date |-> d, type |-> t, data |-> rows]]

\* Variant: a stale snapshot is flagged with the requested date.
BackupResponseFlagsRequested(d, t, backup) ==
    [http |-> 200,
     body |-> [status     |-> "backup",
               date       |-> backup.date,
               type       |-> t,
               data       |-> backup.data,
               message    |-> <<"Fetching failed.">>,
               backupDate |-> d]]

\* Variant: the answer keeps the requested date over the snapshot's rows.
BackupResponseKeepsRequested(d, t, backup) ==
    [http |-> 200,
     body |-> [status     |-> "backup",
               date       |-> d,
               type       |-> t,
               data       |-> backup.data,
               message    |-> <<"Fetching failed.">>,
               backupDate |-> backup.date]]

BackupResponse(d, t, backup) ==
    LET isExact == backup.date = d IN
    [http |-> 200,
     body |-> [status     |-> "backup",
               date       |-> IF isExact THEN d ELSE backup.date,
               type       |-> t,
               data       |-> backup.data,
               message    |-> IF isExact
                              THEN <<"Fetching failed. Loaded local backup for this date.">>
                              ELSE <<"Fetching failed and no backup for", d,
                                     "Loaded latest backup from", backup.date>>,
               backupDate |-> backup.date]]

\* Variant: the error body is sent with the default status code.
ErrorResponseDefaultCode ==
    [http |-> 200,
     body |-> [status  |-> "error",
               message |-> <<"Fetching failed and no backup available.">>]]

ErrorResponse ==
    [http |-> 500,
     body |-> [status  |-> "error",
               message |-> <<"Fetching failed and no backup available.">>]]

-----------------------------------------------------------------------------
(* The page component                                                      *)

\* EMPTY_ROW; the units are written kg (公斤), g (公克) and catty (台斤).
EMPTY_ROW ==
    [productCode       |-> "",
     productName       |-> "",
     upperPrice        |-> "",
     middlePrice       |-> "",
     lowerPrice        |-> "",
     averagePrice      |-> "",
     transactionVolume |-> "",
     quantity          |-> "1",
     unit              |-> "kg",
     salesPrice        |-> "0",
     subtotal          |-> "0",
     remarks           |-> ""]

\* useState initial values of Home; `call` is where fetchData stands, `url`
\* the query of the request it sent, `result` the response it received;
\* `preload` is where loadMasterList stands, vegRes and fruitRes are its two
\* responses.
HomeInit ==
    [date              |-> EmptyString,
     type              |-> "Vegetable",
     data              |-> <<EMPTY_ROW, EMPTY_ROW>>,
     loading           |-> FALSE,
     error             |-> null,
     backupInfo        |-> null,
     productMasterList |-> <<>>,
     call              |-> "idle",
     url               |-> null,
     result            |-> null,
     preload           |-> "idle",
     vegRes            |-> null,
     fruitRes          |-> null]

\* useState initial values of QuoteTable, with initialData = Home's data.
QuoteTableInit ==
    [data              |-> HomeInit.data,
     activeSearchIndex |-> 0,
     searchResults     |-> <<>>]

\* encodeURIComponent on a date: '/' is escaped.
encodeURIComponent(d) == [i \in 1..Len(d) |-> IF d[i] = "/" THEN "%2F" ELSE d[i]]

\* searchParams.get: the percent-decoding of the query value.
searchParamsGet(q) == [i \in 1..Len(q) |-> IF q[i] = "%2F" THEN "/" ELSE q[i]]

-----------------------------------------------------------------------------
(* The handler, one action per await                                       *)

Init ==
    /\ dirExists = FALSE
    /\ files = <<>>
    /\ pc = [r \in Requests |-> "idle"]
    /\ date = [r \in Requests |-> EmptyString]
    /\ type = [r \in Requests |-> "Vegetable"]
    /\ rawData = [r \in Requests |-> <<>>]
    /\ data = [r \in Requests |-> <<>>]
    /\ error = [r \in Requests |-> "none"]
    /\ io = [r \in Requests |-> <<>>]
    /\ resp = [r \in Requests |-> NoResponse]
    /\ home = HomeInit
    /\ quoteTable = QuoteTableInit

\* Variant: the date check is skipped, every query goes upstream.
StartWithoutDateCheck(r) ==
    /\ pc[r] \in {"idle", "done"}
    /\ \E sp \in SearchParams :
        LET d == IF "date" \in DOMAIN sp THEN sp.date ELSE EmptyString
            t == IF "type" \in DOMAIN sp /\ sp.type # "" THEN sp.type ELSE "Vegetable"
        IN /\ date' = [date EXCEPT ![r] = d]
           /\ type' = [type EXCEPT ![r] = t]
    /\ pc' = [pc EXCEPT ![r] = "fetch"]
    /\ resp' = [resp EXCEPT ![r] = NoResponse]
    /\ rawData' = [rawData EXCEPT ![r] = <<>>]
    /\ data' = [data EXCEPT ![r] = <<>>]
    /\ error' = [error EXCEPT ![r] = "none"]
    /\ io' = [io EXCEPT ![r] = <<>>]
    /\ UNCHANGED <<quoteTable, home, dirExists, files>>

\* GET entry for a query out of `params`: read it, reject a missing date.
StartFrom(r, params) ==
    /\ pc[r] \in {"idle", "done"}
    /\ \E sp \in params :
        LET d == IF "date" \in DOMAIN sp THEN sp.date ELSE EmptyString
            t == IF "type" \in DOMAIN sp /\ sp.type # "" THEN sp.type ELSE "Vegetable"
        IN /\ date' = [date EXCEPT ![r] = d]
           /\ type' = [type EXCEPT ![r] = t]
           /\ IF d = EmptyString
              THEN /\ pc' = [pc EXCEPT ![r] = "done"]
                   /\ resp' = [resp EXCEPT ![r] = MissingDateResponse]
              ELSE /\ pc' = [pc EXCEPT ![r] = "fetch"]
                   /\ resp' = [resp EXCEPT ![r] = NoResponse]
    /\ rawData' = [rawData EXCEPT ![r] = <<>>]
    /\ data' = [data EXCEPT ![r] = <<>>]
    /\ error' = [error EXCEPT ![r] = "none"]
    /\ io' = [io EXCEPT ![r] = <<>>]
    /\ UNCHANGED <<quoteTable, home, dirExists, files>>

\* GET entry: read the query, reject a missing date.
Start(r) == StartFrom(r, SearchParams)

Caught(r, e) ==
    /\ error' = [error EXCEPT ![r] = e]
    /\ pc' = [pc EXCEPT ![r] = "load"]

\* Variant: a failed upstream request is repeated once before the catch.
FetchFailsRetries(r) ==
    /\ pc[r] = "fetch"
    /\ IF Len(io[r]) = 0
       THEN pc' = pc /\ error' = error
       ELSE \E e \in {"fetch failed", "API responded with status", "Unexpected token"} :
                Caught(r, e)
    /\ io' = [io EXCEPT ![r] = Append(@, "fetch")]
    /\ UNCHANGED <<quoteTable, home, rawData, dirExists, files, date, type, data, resp>>

\* The upstream request fails: fetch rejects, the status is not ok, or the
\* body is not JSON.
FetchFails(r) ==
    /\ pc[r] = "fetch"
    /\ \E e \in {"fetch failed", "API responded with status", "Unexpected token"} :
        Caught(r, e)
    /\ io' = [io EXCEPT ![r] = Append(@, "fetch")]
    /\ UNCHANGED <<quoteTable, home, rawData, dirExists, files, date, type, data, resp>>

\* Variant: an empty result is not thrown, it is saved and answered fresh.
FetchAnswersKeepsEmpty(r) ==
    /\ pc[r] = "fetch"
    /\ \E answer \in RawAnswers(ApiDate(date[r])) :
        /\ rawData' = [rawData EXCEPT ![r] = answer]
        /\ data' = [data EXCEPT ![r] = mapData(filteredData(answer, type[r]))]
    /\ pc' = [pc EXCEPT ![r] = "ensure"]
    /\ io' = [io EXCEPT ![r] = Append(@, "fetch")]
    /\ UNCHANGED <<quoteTable, home, dirExists, files, date, type, error, resp>>

\* The upstream request answers with the records it holds for the day:
\* filter, map, and throw on an empty result.
FetchAnswers(r) ==
    /\ pc[r] = "fetch"
    /\ \E answer \in RawAnswers(ApiDate(date[r])) :
       LET rows == mapData(filteredData(answer, type[r]))
       IN /\ rawData' = [rawData EXCEPT ![r] = answer]
          /\ IF Len(rows) = 0
             THEN /\ Caught(r, "No data found")
                  /\ data' = data
             ELSE /\ data' = [data EXCEPT ![r] = rows]
                  /\ pc' = [pc EXCEPT ![r] = "ensure"]
                  /\ error' = error
    /\ io' = [io EXCEPT ![r] = Append(@, "fetch")]
    /\ UNCHANGED <<quoteTable, home, dirExists, files, date, type, resp>>

\* saveBackup: await ensureBackupDir().
EnsureBackupDir(r) ==
    /\ pc[r] = "ensure"
    /\ dirExists' = TRUE
    /\ io' = [io EXCEPT ![r] = IF dirExists THEN Append(@, "access")
                               ELSE @ \o <<"access", "mkdir">>]
    /\ pc' = [pc EXCEPT ![r] = "open"]
    /\ UNCHANGED <<quoteTable, home, rawData, files, date, type, data, error, resp>>

\* Variant: one file per date and category, as the earlier revision wrote.
WriteFileOpenPerDate(r) ==
    /\ pc[r] = "open"
    /\ files' = openForWrite(files, date[r][1] \o "_" \o type[r] \o ".json")
    /\ io' = [io EXCEPT ![r] = Append(@, "open")]
    /\ pc' = [pc EXCEPT ![r] = "write"]
    /\ UNCHANGED <<quoteTable, home, rawData, dirExists, date, type, data, error, resp>>

\* saveBackup: fs.writeFile opens the file for writing, which creates or
\* truncates it.
WriteFileOpen(r) ==
    /\ pc[r] = "open"
    /\ files' = openForWrite(files, filename(type[r]))
    /\ io' = [io EXCEPT ![r] = Append(@, "open")]
    /\ pc' = [pc EXCEPT ![r] = "write"]
    /\ UNCHANGED <<quoteTable, home, rawData, dirExists, date, type, data, error, resp>>

\* saveBackup: fs.writeFile writes the text; GET then answers fresh.
WriteFileWrite(r) ==
    /\ pc[r] = "write"
    /\ LET f == filename(type[r])
           text == stringify([date |-> date[r], data |-> data[r]])
       IN files' = writeAt(files, f, text)
    /\ io' = [io EXCEPT ![r] = Append(@, "write")]
    /\ resp' = [resp EXCEPT ![r] = FreshResponse(date[r], type[r], data[r])]
    /\ pc' = [pc EXCEPT ![r] = "done"]
    /\ UNCHANGED <<quoteTable, home, rawData, dirExists, date, type, data, error>>

\* saveBackup throws (permission denied, disk full): at mkdir, at the open,
\* or in the write after any part of the text went out.
SaveThrows(r) ==
    /\ \/ /\ pc[r] = "ensure"
          /\ io' = [io EXCEPT ![r] = IF dirExists THEN Append(@, "access")
                                     ELSE @ \o <<"access", "mkdir">>]
          /\ files' = files
       \/ /\ pc[r] = "open"
          /\ io' = [io EXCEPT ![r] = Append(@, "open")]
          /\ files' = files
       \/ /\ pc[r] = "write"
          /\ io' = [io EXCEPT ![r] = Append(@, "write")]
          /\ LET f == filename(type[r])
                 text == stringify([date |-> date[r], data |-> data[r]])
             IN \E n \in 0..(Len(text) - 1) :
                 files' = writeAt(files, f, SubSeq(text, 1, n))
    /\ Caught(r, "EIO")
    /\ UNCHANGED <<quoteTable, home, rawData, dirExists, date, type, data, resp>>

\* catch block: getLatestBackup, then the backup or the error answer.
LoadBackup(r) ==
    /\ pc[r] = "load"
    /\ LET backup == getLatestBackup(type[r]) IN
        resp' = [resp EXCEPT ![r] =
                    IF backup # null
                    THEN BackupResponse(date[r], type[r], backup)
                    ELSE ErrorResponse]
    /\ io' = [io EXCEPT ![r] = Append(@, "readFile")]
    /\ pc' = [pc EXCEPT ![r] = "done"]
    /\ UNCHANGED <<quoteTable, home, rawData, dirExists, files, date, type, data, error>>

GET(r) ==
    \/ Start(r)
    \/ FetchFails(r)
    \/ FetchAnswers(r)
    \/ EnsureBackupDir(r)
    \/ WriteFileOpen(r)
    \/ WriteFileWrite(r)
    \/ SaveThrows(r)
    \/ LoadBackup(r)

\* Requests served one at a time.
Next == GET(1)

Spec == Init /\ [][Next]_vars

\* Overlapping requests.  The store starts empty or holding snapshots that
\* earlier requests saved; each request is a well-formed query issued once,
\* and the disk does not fail.
Saved(t) ==
    LET raw == <<MOAData("LA1", ApiDate(Date2)), MOAData("F1", ApiDate(Date2))>>
    IN stringify([date |-> Date2, data |-> mapData(filteredData(raw, t))])

InitConc ==
    /\ \E present \in SUBSET Types :
        /\ dirExists = (present # {})
        /\ files = [f \in {filename(t) : t \in present} |->
                        Saved(CHOOSE t \in present : filename(t) = f)]
    /\ pc = [r \in Requests |-> "idle"]
    /\ date = [r \in Requests |-> EmptyString]
    /\ type = [r \in Requests |-> "Vegetable"]
    /\ rawData = [r \in Requests |-> <<>>]
    /\ data = [r \in Requests |-> <<>>]
    /\ error = [r \in Requests |-> "none"]
    /\ io = [r \in Requests |-> <<>>]
    /\ resp = [r \in Requests |-> NoResponse]
    /\ home = HomeInit
    /\ quoteTable = QuoteTableInit

StartOnce(r) ==
    /\ pc[r] = "idle"
    /\ \E d \in {Date1, Date2}, t \in Types :
        /\ date' = [date EXCEPT ![r] = d]
        /\ type' = [type EXCEPT ![r] = t]
    /\ pc' = [pc EXCEPT ![r] = "fetch"]
    /\ UNCHANGED <<quoteTable, home, rawData, dirExists, files, data, error, io, resp>>

NextConc ==
    \E r \in Requests :
        \/ StartOnce(r)
        \/ FetchFails(r)
        \/ FetchAnswers(r)
        \/ EnsureBackupDir(r)
        \/ WriteFileOpen(r)
        \/ WriteFileWrite(r)
        \/ LoadBackup(r)

SpecConc == InitConc /\ [][NextConc]_vars

\* Requests served one at a time on a store that earlier fresh answers for
\* Date1 have filled for both categories.
StockedFiles ==
    LET raw == <<MOAData("LA1", ApiDate(Date1)), MOAData("F1", ApiDate(Date1))>>
        rows(t) == mapData(filteredData(raw, t))
    IN saveBackupOn(saveBackupOn(<<>>, Date1, "Vegetable", rows("Vegetable")),
                    Date1, "Fruit", rows("Fruit"))

InitStocked ==
    /\ dirExists = TRUE
    /\ files = StockedFiles
    /\ pc = [r \in Requests |-> "idle"]
    /\ date = [r \in Requests |-> EmptyString]
    /\ type = [r \in Requests |-> "Vegetable"]
    /\ rawData = [r \in Requests |-> <<>>]
    /\ data = [r \in Requests |-> <<>>]
    /\ error = [r \in Requests |-> "none"]
    /\ io = [r \in Requests |-> <<>>]
    /\ resp = [r \in Requests |-> NoResponse]
    /\ home = HomeInit
    /\ quoteTable = QuoteTableInit

SpecStocked == InitStocked /\ [][Next]_vars

\* Rows a deployment of the earlier revision left on disk.
LegacyRows(t) ==
    {mapData(filteredData(raw, t)) : raw \in RawAnswers(ApiDate(Date2))}

\* Requests served one at a time on a store whose files are bare row arrays.
InitLegacy ==
    /\ dirExists = TRUE
    /\ \E v \in LegacyRows("Vegetable"), f \in LegacyRows("Fruit") :
        files = (filename("Vegetable") :> stringifyArray(v))
                @@ (filename("Fruit") :> stringifyArray(f))
    /\ pc = [r \in Requests |-> "idle"]
    /\ date = [r \in Requests |-> EmptyString]
    /\ type = [r \in Requests |-> "Vegetable"]
    /\ rawData = [r \in Requests |-> <<>>]
    /\ data = [r \in Requests |-> <<>>]
    /\ error = [r \in Requests |-> "none"]
    /\ io = [r \in Requests |-> <<>>]
    /\ resp = [r \in Requests |-> NoResponse]
    /\ home = HomeInit
    /\ quoteTable = QuoteTableInit

SpecLegacy == InitLegacy /\ [][Next]_vars

\* Queries with a well-formed date whose type may be outside the two
\* categories of the page's select.
AnyTypeParams ==
    {[date |-> d, type |-> t] : d \in {Date1, Date2}, t \in Types \cup {"Other"}}

\* Requests of any type, served one at a time on the stocked store, the
\* disk not failing.
NextAnyType ==
    \/ StartFrom(1, AnyTypeParams)
    \/ FetchFails(1)
    \/ FetchAnswers(1)
    \/ EnsureBackupDir(1)
    \/ WriteFileOpen(1)
    \/ WriteFileWrite(1)
    \/ LoadBackup(1)

SpecAnyType == InitStocked /\ [][NextAnyType]_vars

-----------------------------------------------------------------------------
(* The page and the handler together: one user query at a time             *)

\* Variant: the warning state is left as fetchData found it.
backupInfoKept(prev, result) == prev

\* fetchData on a 2xx answer: setBackupInfo when the status is backup.
backupInfoOf(prev, result) ==
    IF result.status = "backup"
    THEN [isBackup |-> TRUE,
          date     |-> IF "backupDate" \in DOMAIN result /\ result.backupDate # EmptyString
                       THEN result.backupDate
                       ELSE result.date]
    ELSE prev

\* new Error(result.message || '無法取得資料')
errorOf(result) ==
    [message |-> IF "message" \in DOMAIN result /\ result.message # EmptyString
                 THEN result.message
                 ELSE <<"Unable to fetch data">>]

\* onChange of the date input.
setDate(d) ==
    /\ home.date # d
    /\ home' = [home EXCEPT !.date = d]
    /\ UNCHANGED <<quoteTable, dirExists, files, pc, date, type, rawData, data, error, io, resp>>

\* onChange of the category select.
setType(t) ==
    /\ home.type # t
    /\ home' = [home EXCEPT !.type = t]
    /\ UNCHANGED <<quoteTable, dirExists, files, pc, date, type, rawData, data, error, io, resp>>

\* fetchData up to its first await: the states are reset and the request is
\* sent (pc[1] = "idle": the request has not reached the handler yet). The
\* query button is disabled while loading.
fetchData ==
    /\ ~home.loading
    /\ pc[1] \in {"idle", "done"}
    /\ Len(home.productMasterList) < MaxPool
    /\ home' = [home EXCEPT !.loading = TRUE,
                            !.error = null,
                            !.backupInfo = null,
                            !.call = "await",
                            !.url = [date |-> encodeURIComponent(home.date),
                                     type |-> home.type],
                            !.result = null]
    /\ pc' = [pc EXCEPT ![1] = "idle"]
    /\ UNCHANGED <<quoteTable, dirExists, files, date, type, rawData, data, error, io, resp>>

\* The request reaches the route handler.
Route ==
    /\ home.call = "await"
    /\ pc[1] = "idle"
    /\ Start(1)
    /\ date'[1] = searchParamsGet(home.url.date)
    /\ type'[1] = home.url.type

\* Variant: the answer's rows are put into the table (setData(transformedData)).
fetchDataResponseFillsTable ==
    /\ home.call = "await"
    /\ pc[1] = "done"
    /\ LET res == resp[1]
           result == res.body
       IN home' = IF res.http \notin 200..299
                  THEN [home EXCEPT !.error = errorOf(result),
                                    !.loading = FALSE,
                                    !.call = "done",
                                    !.result = res]
                  ELSE [home EXCEPT !.data = [i \in 1..Len(result.data) |->
                                                [f \in DOMAIN EMPTY_ROW |->
                                                    IF f \in DOMAIN result.data[i]
                                                    THEN result.data[i][f]
                                                    ELSE EMPTY_ROW[f]]],
                                    !.productMasterList = @ \o result.data,
                                    !.backupInfo = backupInfoOf(@, result),
                                    !.loading = FALSE,
                                    !.call = "done",
                                    !.result = res]
    /\ UNCHANGED <<quoteTable, dirExists, files, pc, date, type, rawData, data, error, io, resp>>

\* Variant: without the finally block, setLoading(false) follows the try
\* block only.
fetchDataResponseNoFinally ==
    /\ home.call = "await"
    /\ pc[1] = "done"
    /\ LET res == resp[1]
           result == res.body
       IN home' = IF res.http \notin 200..299
                  THEN [home EXCEPT !.error = errorOf(result),
                                    !.call = "done",
                                    !.result = res]
                  ELSE [home EXCEPT !.productMasterList = @ \o result.data,
                                    !.backupInfo = backupInfoOf(@, result),
                                    !.loading = FALSE,
                                    !.call = "done",
                                    !.result = res]
    /\ UNCHANGED <<quoteTable, dirExists, files, pc, date, type, rawData, data, error, io, resp>>

\* fetchData after `await fetch` and `await res.json()`.
fetchDataResponse ==
    /\ home.call = "await"
    /\ pc[1] = "done"
    /\ LET res == resp[1]
           result == res.body
       IN home' = IF res.http \notin 200..299
                  THEN [home EXCEPT !.error = errorOf(result),
                                    !.loading = FALSE,
                                    !.call = "done",
                                    !.result = res]
                  ELSE [home EXCEPT !.productMasterList = @ \o result.data,
                                    !.backupInfo = backupInfoOf(@, result),
                                    !.loading = FALSE,
                                    !.call = "done",
                                    !.result = res]
    /\ UNCHANGED <<quoteTable, dirExists, files, pc, date, type, rawData, data, error, io, resp>>

\* `await fetch` rejects (the network between page and handler fails).
fetchDataRejects ==
    /\ home.call = "await"
    /\ home' = [home EXCEPT !.error = [message |-> <<"Failed to fetch">>],
                            !.loading = FALSE,
                            !.call = "done"]
    /\ UNCHANGED <<quoteTable, dirExists, files, pc, date, type, rawData, data, error, io, resp>>

NextClient ==
    \/ \E d \in {Date1, Date2} : setDate(d)
    \/ \E t \in Types : setType(t)
    \/ fetchData
    \/ Route
    \/ FetchFails(1)
    \/ FetchAnswers(1)
    \/ EnsureBackupDir(1)
    \/ WriteFileOpen(1)
    \/ WriteFileWrite(1)
    \/ LoadBackup(1)
    \/ fetchDataResponse
    \/ fetchDataRejects

\* The page is opened on an empty store or on one stocked for Date1.
InitClient == Init \/ InitStocked

SpecClient == InitClient /\ [][NextClient]_vars

-----------------------------------------------------------------------------
(* The page's preload on mount, and a user query next to it                *)

\* The mount effect calls loadMasterList, which sends its two requests.
loadMasterList ==
    /\ home.preload = "idle"
    /\ home' = [home EXCEPT !.preload = "await"]
    /\ UNCHANGED <<quoteTable, dirExists, files, pc, date, type, rawData, data, error, io, resp>>

\* A preload request reaches the route handler: request 1 asks for
\* Vegetable, request 2 for Fruit, both with date=latest.
RoutePreload(r) ==
    /\ home.preload = "await"
    /\ pc[r] = "idle"
    /\ Start(r)
    /\ date'[r] = Latest
    /\ type'[r] = IF r = 1 THEN "Vegetable" ELSE "Fruit"

\* Promise.all resolves with both responses.
loadMasterListAll ==
    /\ home.preload = "await"
    /\ \A r \in Requests : pc[r] = "done"
    /\ home' = [home EXCEPT !.preload = "json", !.vegRes = resp[1], !.fruitRes = resp[2]]
    /\ UNCHANGED <<quoteTable, dirExists, files, pc, date, type, rawData, data, error, io, resp>>

\* One of the two fetches rejects: the catch logs and nothing is set.
loadMasterListRejects ==
    /\ home.preload = "await"
    /\ home' = [home EXCEPT !.preload = "done"]
    /\ UNCHANGED <<quoteTable, dirExists, files, pc, date, type, rawData, data, error, io, resp>>

\* combinedList: the rows of each response that is ok and has data.
combinedList(vegRes, fruitRes) ==
    (IF vegRes.http \in 200..299 /\ "data" \in DOMAIN vegRes.body
     THEN vegRes.body.data ELSE <<>>)
    \o (IF fruitRes.http \in 200..299 /\ "data" \in DOMAIN fruitRes.body
        THEN fruitRes.body.data ELSE <<>>)

\* After the bodies are read: setProductMasterList(combinedList).
loadMasterListSet ==
    /\ home.preload = "json"
    /\ home' = [home EXCEPT !.preload = "done",
                            !.productMasterList =
                                combinedList(home.vegRes, home.fruitRes)]
    /\ UNCHANGED <<quoteTable, dirExists, files, pc, date, type, rawData, data, error, io, resp>>

\* The preload, and one user query for Date1 that is sent once the preload's
\* responses have arrived (request 1 is free again).
NextPreload ==
    \/ loadMasterList
    \/ \E r \in Requests :
        \/ RoutePreload(r)
        \/ FetchFails(r)
        \/ FetchAnswers(r)
        \/ EnsureBackupDir(r)
        \/ WriteFileOpen(r)
        \/ WriteFileWrite(r)
        \/ LoadBackup(r)
    \/ loadMasterListAll
    \/ loadMasterListRejects
    \/ loadMasterListSet
    \/ setDate(Date1)
    \/ home.preload \in {"json", "done"} /\ fetchData
    \/ Route
    \/ fetchDataResponse
    \/ fetchDataRejects

SpecPreload == InitClient /\ [][NextPreload]_vars

-----------------------------------------------------------------------------
(* The quote table                                                         *)

\* Numbers are counted in thousandths, products of two numbers in
\* millionths; the numbers that occur are not negative. NaN is the one
\* value that is not a number.
NaN == 0 - 1

\* Math.round-like rounding of toFixed: millionths to cents.
Cents(millionths) == (millionths + 5000) \div 10000

Pad2(n) == (IF n < 10 THEN "0" ELSE "") \o ToString(n)

Pad3(n) == (IF n < 10 THEN "00" ELSE IF n < 100 THEN "0" ELSE "") \o ToString(n)

\* x.toFixed(2), x in millionths.
toFixed2(x) == ToString(Cents(x) \div 100) \o "." \o Pad2(Cents(x) % 100)

\* x.toFixed(3), x in millionths.
toFixed3(x) ==
    LET t == (x + 500) \div 1000
    IN ToString(t \div 1000) \o "." \o Pad3(t % 1000)

\* The strings the user types into a number field or the code writes
\* there, with the number parseFloat reads from each, in thousandths.
TypedNumbers == ("0" :> 0) @@ ("1" :> 1000) @@ ("0.5" :> 500) @@ ("0.25" :> 250)

\* The strings toFixed(2) can have written, with the number parseFloat
\* reads from each, in thousandths.
FixedNumbers ==
    LET written == {toFixed2(c * 10000) : c \in 0..50}
    IN [str \in written |-> 10 * (CHOOSE c \in 0..50 : toFixed2(c * 10000) = str)]

\* parseFloat: a number, or NaN for a string that does not start with one.
parseFloat(str) ==
    IF str \in DOMAIN TypedNumbers THEN TypedNumbers[str]
    ELSE IF str \in DOMAIN FixedNumbers THEN FixedNumbers[str]
    ELSE NaN

\* value || '0'
orZero(str) == IF str = "" THEN "0" ELSE str

\* Variant: the subtotal is left as it is.
recomputeNever(row, field) == row

\* handleChange: the subtotal follows an edit of quantity or salesPrice
\* when both parse as numbers.
recompute(row, field) ==
    LET qty == parseFloat(orZero(row.quantity))
        price == parseFloat(orZero(row.salesPrice))
    IN IF field \in {"quantity", "salesPrice"} /\ qty # NaN /\ price # NaN
       THEN [row EXCEPT !.subtotal = toFixed2(qty * price)]
       ELSE row

\* toLowerCase on the strings that occur.
toLowerCase(str) == IF str = "LA1" THEN "la1" ELSE IF str = "LB2" THEN "lb2"
                    ELSE IF str = "F1" THEN "f1" ELSE str

\* String.prototype.includes on the strings that occur.
includes(str, term) ==
    \/ term = str
    \/ <<str, term>> \in {<<"cabbage", "cab">>, <<"la1", "la">>}

RECURSIVE filterProducts(_, _)
\* productMasterList.filter(...) of the autocomplete (max. 10 results).
filterProducts(list, term) ==
    IF list = <<>> THEN <<>>
    ELSE LET p == Head(list)
             hit == \/ p.productCode # "" /\ includes(toLowerCase(p.productCode), term)
                    \/ p.productName # "" /\ includes(toLowerCase(p.productName), term)
         IN (IF hit THEN <<p>> ELSE <<>>) \o filterProducts(Tail(list), term)

\* What the user types into the editable fields of a row when pricing.
FieldInputs ==
    [productName |-> {"", "cab"},
     quantity    |-> {"1", "0.5", "abc"},
     salesPrice  |-> {"0", "0.25"}]

\* What the user types into the fields the total weight reads.
WeightInputs ==
    [quantity |-> {"1", "0.5", "abc", ""},
     unit     |-> {"kg", "g", "catty"}]

\* onChange of a cell: activeSearchIndex 0 stands for null.
handleChange(index, field, value) ==
    /\ index \in 1..Len(quoteTable.data)
    /\ quoteTable.data[index][field] # value
    /\ LET newData == [quoteTable.data EXCEPT
                          ![index] = recompute([@ EXCEPT ![field] = value], field)]
           searching == field = "productName" /\ Len(home.productMasterList) > 0
           term == toLowerCase(value)
       IN /\ quoteTable' =
                [data              |-> newData,
                 activeSearchIndex |-> IF searching THEN index
                                       ELSE quoteTable.activeSearchIndex,
                 searchResults     |-> IF ~searching THEN quoteTable.searchResults
                                       ELSE IF term # ""
                                       THEN filterProducts(home.productMasterList, term)
                                       ELSE <<>>]
          /\ home' = [home EXCEPT !.data = newData]
    /\ UNCHANGED <<dirExists, files, pc, date, type, rawData, data, error, io, resp>>

\* Click on a suggestion of the dropdown shown under row `index`.
handleSelectProduct(index, product) ==
    /\ index \in 1..Len(quoteTable.data)
    /\ quoteTable.activeSearchIndex = index
    /\ \E k \in 1..Len(quoteTable.searchResults) : quoteTable.searchResults[k] = product
    /\ LET formattedName == product.productName \o
                (IF "variety" \in DOMAIN product /\ product.variety # ""
                 THEN "(" \o product.variety \o ")" ELSE "")
           newData == [quoteTable.data EXCEPT ![index].productName = formattedName]
       IN /\ quoteTable' = [quoteTable EXCEPT !.data = newData, !.activeSearchIndex = 0]
          /\ home' = [home EXCEPT !.data = newData]
    /\ UNCHANGED <<dirExists, files, pc, date, type, rawData, data, error, io, resp>>

\* data.filter((_, i) => i !== index)
without(rows, index) ==
    [j \in 1..(Len(rows) - 1) |-> IF j < index THEN rows[j] ELSE rows[j + 1]]

handleDelete(index) ==
    /\ index \in 1..Len(quoteTable.data)
    /\ LET newData == without(quoteTable.data, index)
       IN /\ quoteTable' = [quoteTable EXCEPT !.data = newData]
          /\ home' = [home EXCEPT !.data = newData]
    /\ UNCHANGED <<dirExists, files, pc, date, type, rawData, data, error, io, resp>>

\* Variant: the new rows are not reported to the page.
handleAddRowUnreported ==
    /\ Len(quoteTable.data) < MaxRows
    /\ quoteTable' = [quoteTable EXCEPT !.data = Append(@, EMPTY_ROW)]
    /\ UNCHANGED <<home, dirExists, files, pc, date, type, rawData, data, error, io, resp>>

handleAddRow ==
    /\ Len(quoteTable.data) < MaxRows
    /\ LET newData == Append(quoteTable.data, EMPTY_ROW)
       IN /\ quoteTable' = [quoteTable EXCEPT !.data = newData]
          /\ home' = [home EXCEPT !.data = newData]
    /\ UNCHANGED <<dirExists, files, pc, date, type, rawData, data, error, io, resp>>

\* Variant: every unit counts as kilograms.
factorAlwaysOne(unit) == 1000

\* The switch on item.unit, in thousandths.
factor(unit) == IF unit = "g" THEN 1 ELSE IF unit = "catty" THEN 600 ELSE 1000

RECURSIVE totalWeight(_)
\* data.reduce over the rows, in millionths of a kilogram.
totalWeight(rows) ==
    IF rows = <<>> THEN 0
    ELSE LET item == rows[Len(rows)]
             qty == parseFloat(orZero(item.quantity))
             sum == totalWeight(SubSeq(rows, 1, Len(rows) - 1))
         IN IF qty = NaN THEN sum ELSE sum + qty * factor(item.unit)

\* The table on a page whose pool the preload has filled.
InitTable ==
    /\ dirExists = TRUE
    /\ files = StockedFiles
    /\ pc = [r \in Requests |-> "idle"]
    /\ date = [r \in Requests |-> EmptyString]
    /\ type = [r \in Requests |-> "Vegetable"]
    /\ rawData = [r \in Requests |-> <<>>]
    /\ data = [r \in Requests |-> <<>>]
    /\ error = [r \in Requests |-> "none"]
    /\ io = [r \in Requests |-> <<>>]
    /\ resp = [r \in Requests |-> NoResponse]
    /\ home = [HomeInit EXCEPT
                  !.preload = "done",
                  !.productMasterList =
                      getLatestBackupOn(StockedFiles, "Vegetable").data
                      \o getLatestBackupOn(StockedFiles, "Fruit").data]
    /\ quoteTable = QuoteTableInit

NextTable ==
    \/ \E index \in 1..MaxRows, field \in DOMAIN FieldInputs :
            \E value \in FieldInputs[field] : handleChange(index, field, value)
    \/ \E index \in 1..MaxRows, c \in Crops :
            handleSelectProduct(index, MarketData(MOAData(c, ApiDate(Date1))))
    \/ \E index \in 1..MaxRows : handleDelete(index)
    \/ handleAddRow

SpecTable == InitTable /\ [][NextTable]_vars

NextWeight ==
    \/ \E index \in 1..MaxRows, field \in DOMAIN WeightInputs :
            \E value \in WeightInputs[field] : handleChange(index, field, value)
    \/ \E index \in 1..MaxRows : handleDelete(index)
    \/ handleAddRow

SpecWeight == InitTable /\ [][NextWeight]_vars

\* Queries for one date and the default category.
NextLoading ==
    \/ setDate(Date1)
    \/ fetchData
    \/ Route
    \/ FetchFails(1)
    \/ FetchAnswers(1)
    \/ EnsureBackupDir(1)
    \/ WriteFileOpen(1)
    \/ WriteFileWrite(1)
    \/ LoadBackup(1)
    \/ fetchDataResponse
    \/ fetchDataRejects

\* Every pending await settles: the request is delivered, the handler's
\* awaits resolve or reject, and the page's fetch resolves or rejects.
SpecClientFair ==
    /\ InitClient /\ [][NextLoading]_vars
    /\ WF_vars(Route)
    /\ WF_vars(FetchFails(1) \/ FetchAnswers(1))
    /\ WF_vars(EnsureBackupDir(1))
    /\ WF_vars(WriteFileOpen(1))
    /\ WF_vars(WriteFileWrite(1))
    /\ WF_vars(LoadBackup(1))
    /\ WF_vars(fetchDataResponse \/ fetchDataRejects)

-----------------------------------------------------------------------------
(* Vocabulary of the properties                                            *)

Answered(r) == pc[r] = "done"

Body(r) == IF "body" \in DOMAIN resp[r] THEN resp[r].body ELSE [none |-> TRUE]

Status(r) == IF "status" \in DOMAIN Body(r) THEN Body(r).status ELSE "none"

Has(r, field) == field \in DOMAIN Body(r)

\* The live fetch was attempted and produced no rows (any failure kind).
NoLiveData(r) == date[r] # EmptyString /\ data[r] = <<>>

UpstreamFailures ==
    {"fetch failed", "API responded with status", "Unexpected token", "No data found"}

Count(s, x) == Cardinality({i \in 1..Len(s) : s[i] = x})

\* YYY/MM/DD
WellFormedROC(d) == Len(d) = 5 /\ d[2] = "/" /\ d[4] = "/"

\* The rows the upstream serves for the day a date string names.
RowsOfDay(d) == {MarketData(MOAData(c, ApiDate(d))) : c \in Crops}

-----------------------------------------------------------------------------
(* Properties                                                              *)

\* C1: a request answered fresh leaves a snapshot that getLatestBackup reads
\* back as exactly the date and the rows of the response, in order.
C1_RoundTrip ==
    \A r \in Requests :
        Answered(r) /\ Status(r) = "fresh" =>
            getLatestBackup(Body(r).type) =
                [date |-> Body(r).date, data |-> Body(r).data]

C1_Witness ==
    \E r \in Requests :
        /\ Answered(r) /\ Status(r) = "fresh"
        /\ Len(Body(r).data) = 2 /\ Body(r).data[1] # Body(r).data[2]

\* C2 (as claimed): when the live fetch produced rows and saveBackup threw,
\* the answer is still fresh, HTTP 200, with the fetched rows and date.
C2_SaveErrorStillFresh ==
    \A r \in Requests :
        Answered(r) /\ error[r] = "EIO" =>
            /\ resp[r].http = 200
            /\ Status(r) = "fresh"
            /\ Body(r).date = date[r]
            /\ Body(r).data = data[r]

\* C3 (as claimed): backupDate is present only in a backup answer whose
\* snapshot date differs from the requested date; an exact-date backup
\* carries none.
C3_BackupDateOnlyWhenStale ==
    \A r \in Requests :
        Answered(r) =>
            (Has(r, "backupDate") <=>
                (Status(r) = "backup" /\ Body(r).backupDate # date[r]))

\* C4: when the live fetch fails and the snapshot's date S differs from the
\* requested date D, the answer is backup with date S, backupDate S and the
\* snapshot's rows; its date is not D.
C4_StaleBackupCorrectsDate ==
    \A r \in Requests :
        LET b == getLatestBackup(type[r]) IN
        (Answered(r) /\ NoLiveData(r) /\ b # null /\ b.date # date[r]) =>
            /\ resp[r].http = 200
            /\ Status(r) = "backup"
            /\ Body(r).date = b.date
            /\ Body(r).backupDate = b.date
            /\ Body(r).data = b.data
            /\ Body(r).date # date[r]

C4_Witness ==
    \E r \in Requests :
        /\ Answered(r) /\ NoLiveData(r)
        /\ getLatestBackup(type[r]) # null
        /\ getLatestBackup(type[r]).date = Date2
        /\ date[r] = Date1
        /\ Status(r) = "backup"

\* C5 (as claimed): with no snapshot ever saved for the category and a failed
\* live fetch, the answer has status error and data = [].
C5_ExhaustionHasEmptyData ==
    \A r \in Requests :
        (Answered(r) /\ NoLiveData(r) /\ filename(type[r]) \notin DOMAIN files) =>
            /\ Status(r) = "error"
            /\ Has(r, "data")
            /\ Body(r).data = <<>>

\* What an answer shows: status, date, rows, backupDate, HTTP code.
Shown(r) ==
    <<Status(r),
      IF Has(r, "date") THEN Body(r).date ELSE EmptyString,
      IF Has(r, "data") THEN Body(r).data ELSE <<>>,
      IF Has(r, "backupDate") THEN Body(r).backupDate ELSE EmptyString,
      resp[r].http>>

\* The one outcome of "no live data", a function of the stored snapshot only.
NoLiveDataOutcome(t) ==
    LET b == getLatestBackup(t) IN
    IF b = null THEN <<"error", EmptyString, <<>>, EmptyString, 500>>
    ELSE <<"backup", b.date, b.data, b.date, 200>>

\* C6: zero qualifying rows, a network error, a non-success status and an
\* unparseable body all end in the same answer for the same store, date and
\* category; each is caught by GET and followed by exactly one snapshot
\* lookup.
C6_FailuresCollapse ==
    \A r \in Requests :
        /\ pc[r] \notin {"idle", "fetch"} /\ NoLiveData(r) =>
                error[r] \in UpstreamFailures /\ pc[r] \in {"load", "done"}
        /\ Answered(r) /\ NoLiveData(r) =>
                /\ Shown(r) = NoLiveDataOutcome(type[r])
                /\ Count(io[r], "readFile") = 1

C6_Witness ==
    \E r \in Requests :
        /\ Answered(r) /\ error[r] = "No data found"
        /\ Status(r) = "backup"

\* The handler of request r took this step.
Moved(r) ==
    <<pc[r], date[r], type[r], rawData[r], data[r], error[r], io[r], resp[r]>>' #
    <<pc[r], date[r], type[r], rawData[r], data[r], error[r], io[r], resp[r]>>

\* C7: a request without a date (absent or empty) is answered 400 at once:
\* no upstream request, no read or write of the store, the store unchanged.
C7_MissingDateShortCircuits ==
    [][\A r \in Requests :
        (pc[r] \in {"idle", "done"} /\ Moved(r) /\ date'[r] = EmptyString) =>
            /\ pc'[r] = "done"
            /\ resp'[r] = MissingDateResponse
            /\ io'[r] = <<>>
            /\ files' = files
            /\ dirExists' = dirExists]_vars

C7_Witness ==
    \E r \in Requests :
        /\ Answered(r) /\ date[r] = EmptyString /\ resp[r].http = 400
        /\ files # <<>>

\* C8 (as claimed): a request whose date is not of the form YYY/MM/DD is
\* answered 400 before any upstream request or store access.
C8_MalformedDateRejected ==
    \A r \in Requests :
        (pc[r] # "idle" /\ ~WellFormedROC(date[r])) =>
            /\ pc[r] = "done"
            /\ resp[r].http = 400
            /\ io[r] = <<>>

\* C9 (as claimed): while a load of a category is pending, no step of a
\* concurrent save changes what the load would return except to the complete
\* snapshot being saved.
C9_AtomicSnapshotWrites ==
    [][\A t \in Types :
        (\E r \in Requests : pc[r] = "load" /\ type[r] = t) =>
            getLatestBackupOn(files', t) \in
                {getLatestBackupOn(files, t)} \cup
                {[date |-> date[q], data |-> data[q]] :
                    q \in {q \in Requests : type[q] = t /\ pc[q] \in {"open", "write"}}}]_vars

\* C10: the rows of every fresh or backup answer, and of every stored
\* snapshot, are rows the upstream serves for the day the accompanying date
\* names.
C10_Provenance ==
    /\ \A r \in Requests :
        Answered(r) /\ Status(r) \in {"fresh", "backup"} =>
            \A i \in 1..Len(Body(r).data) : Body(r).data[i] \in RowsOfDay(Body(r).date)
    /\ \A t \in Types :
        LET b == getLatestBackup(t) IN
        b # null => \A i \in 1..Len(b.data) : b.data[i] \in RowsOfDay(b.date)

C10_Witness ==
    \E r \in Requests :
        /\ Answered(r) /\ Status(r) = "backup"
        /\ date[r] = Date1 /\ Body(r).date = Date2
        /\ Len(Body(r).data) = 2

\* C11: from an empty store, every fresh or backup answer carries at least
\* one row, saveBackup is reached only with at least one row, and no stored
\* snapshot has zero rows.
C11_RowsEmptyOnlyOnError ==
    /\ \A r \in Requests :
        /\ Answered(r) /\ Status(r) \in {"fresh", "backup"} => Len(Body(r).data) >= 1
        /\ pc[r] \in {"ensure", "open", "write"} => Len(data[r]) >= 1
    /\ \A t \in Types :
        getLatestBackup(t) # null => Len(getLatestBackup(t).data) >= 1

C11_Witness ==
    \E r \in Requests :
        /\ Answered(r) /\ error[r] = "No data found" /\ Len(rawData[r]) >= 1
        /\ Status(r) = "backup" /\ Len(Body(r).data) >= 1

\* C12: the store holds at most one file per category, and after a fresh
\* answer the category's file is exactly the new snapshot, with nothing of
\* the snapshot it replaced, whatever the two dates.
C12_SingleSnapshot ==
    /\ DOMAIN files \subseteq {filename(t) : t \in Types}
    /\ \A r \in Requests :
        Answered(r) /\ Status(r) = "fresh" =>
            files[filename(Body(r).type)] =
                stringify([date |-> Body(r).date, data |-> Body(r).data])

\* A fresh answer for the older date on a store stocked for the newer one.
C12_Witness ==
    \E r \in Requests :
        /\ Answered(r) /\ Status(r) = "fresh"
        /\ Body(r).type = "Vegetable" /\ Body(r).date = Date2
        /\ getLatestBackup("Vegetable").date = Date2
        /\ files[filename("Fruit")] = StockedFiles[filename("Fruit")]

\* C13: saveBackup applied twice with the same (category, date, rows) leaves
\* the same result of load for every category as applying it once.
C13_SaveIdempotent ==
    \A r \in Requests :
        pc[r] = "ensure" =>
            LET once == saveBackupOn(files, date[r], type[r], data[r])
                twice == saveBackupOn(once, date[r], type[r], data[r])
            IN \A t \in Types :
                /\ getLatestBackupOn(twice, t) = getLatestBackupOn(once, t)
                /\ getLatestBackupOn(once, type[r]) = [date |-> date[r], data |-> data[r]]

C13_Witness ==
    \E r \in Requests :
        /\ pc[r] = "ensure"
        /\ getLatestBackup(type[r]) # null
        /\ getLatestBackup(type[r]) # [date |-> date[r], data |-> data[r]]
        /\ Len(data[r]) = 2

\* C14 (as claimed): no request removes an existing snapshot: on a store
\* that held a snapshot for every category, whenever no request is in
\* progress every category still has a snapshot to load.
C14_StoreNeverShrinks ==
    (\A r \in Requests : pc[r] \in {"idle", "done"}) =>
        \A t \in Types : getLatestBackup(t) # null

\* C14, first half: the steps of a request whose live fetch gave no rows
\* leave every file as it was.
C14_FailurePathReadOnly ==
    [][\A r \in Requests :
        (NoLiveData(r) /\ pc[r] \in {"load"}) => (files' = files /\ dirExists' = dirExists)]_vars

FileOf(fs, t) ==
    IF filename(t) \in DOMAIN fs THEN fs[filename(t)] ELSE <<[k |-> "ENOENT"]>>

\* C15: no step of a request changes the file of a category other than the
\* one it asks for, in any interleaving of two requests.
C15_CategoriesIndependent ==
    [][\A r \in Requests :
        Moved(r) => \A t \in Types \ {type'[r]} : FileOf(files', t) = FileOf(files, t)]_vars

C15_Witness ==
    /\ pc[1] = "write" /\ pc[2] = "write"
    /\ type[1] = "Vegetable" /\ type[2] = "Fruit"

CategoryCode(t) == IF t = "Vegetable" THEN "N04" ELSE "N05"

\* Positions of the upstream records of category t.
Kept(raw, t) == {i \in 1..Len(raw) : raw[i].typeCode = CategoryCode(t)}

\* The k-th smallest member of a set of positions.
Nth(S, k) == CHOOSE i \in S : Cardinality({j \in S : j < i}) = k - 1

\* C16: the rows of a fresh answer for Vegetable are, in upstream order and
\* one for one, the upstream records with code N04, and for Fruit those
\* with code N05; no record of the other category gives a row.
C16_CategoryFilter ==
    \A r \in Requests :
        Answered(r) /\ Status(r) = "fresh" =>
            LET raw == rawData[r]
                rows == Body(r).data
                kept == Kept(raw, Body(r).type)
            IN /\ Len(rows) = Cardinality(kept)
               /\ \A k \in 1..Len(rows) :
                    /\ rows[k].productCode = raw[Nth(kept, k)].cropCode
                    /\ rows[k].productName = raw[Nth(kept, k)].cropName
                    /\ rows[k].middlePrice = ToString(raw[Nth(kept, k)].middle)

\* A record of the other category came first and was discarded.
C16_Witness ==
    \E r \in Requests :
        /\ Answered(r) /\ Status(r) = "fresh" /\ Body(r).type = "Vegetable"
        /\ Len(rawData[r]) = 2 /\ rawData[r][1].typeCode = "N05"
        /\ Len(Body(r).data) = 1

\* C17: an answer with status fresh or backup has code 200, the answer to
\* a request without date has code 400, an answer with status error has
\* code 500, and GET answers with no other code.
C17_HttpMapping ==
    \A r \in Requests :
        Answered(r) =>
            /\ resp[r].http \in {200, 400, 500}
            /\ Status(r) \in {"fresh", "backup"} => resp[r].http = 200
            /\ Status(r) = "error" => resp[r].http = 500
            /\ date[r] = EmptyString <=> resp[r].http = 400
            /\ resp[r].http = 400 => resp[r] = MissingDateResponse
            /\ resp[r].http = 500 => Status(r) = "error"
            /\ resp[r].http = 200 => Status(r) \in {"fresh", "backup"}

C17_Witness ==
    \E r \in Requests :
        Answered(r) /\ Status(r) = "error" /\ resp[r].http = 500

\* C18: when the file of the category is a bare array of rows, a request
\* whose live fetch gave no rows is answered with status backup, those rows
\* and the date Unknown, not with status error.
C18_LegacyArrayAccepted ==
    \A r \in Requests :
        \A rows \in LegacyRows(type[r]) :
            /\ Answered(r) /\ NoLiveData(r)
            /\ files[filename(type[r])] = stringifyArray(rows)
            => /\ Status(r) = "backup"
               /\ Body(r).data = rows
               /\ Body(r).date = Unknown /\ Body(r).backupDate = Unknown
               /\ resp[r].http = 200

C18_Witness ==
    \E r \in Requests :
        /\ Answered(r) /\ NoLiveData(r)
        /\ files[filename(type[r])] = stringifyArray(Body(r).data)
        /\ Len(Body(r).data) = 2 /\ Body(r).date = Unknown

\* C19 (as claimed): every answer with status fresh, backup or error
\* carries the requested category and the requested date.
C19_EchoOfInput ==
    \A r \in Requests :
        Answered(r) /\ Status(r) \in {"fresh", "backup", "error"} =>
            /\ Has(r, "type") /\ Body(r).type = type[r]
            /\ \E field \in {"date", "requestedDate"} \cap DOMAIN Body(r) :
                    Body(r)[field] = date[r]

\* C20: once a user query has completed, a backup answer whose date is not
\* the requested one has set backupInfo to the snapshot's date, an error
\* answer has set the error message, a query without answer has set the
\* error, and error and backupInfo are both unset only after a fresh answer
\* or a backup of the requested date.
C20_StalenessFlagged ==
    home.call = "done" =>
        LET requested == searchParamsGet(home.url.date) IN
        IF home.result = null THEN home.error # null
        ELSE LET b == home.result.body
                 st == IF "status" \in DOMAIN b THEN b.status ELSE "none"
             IN /\ st = "backup" /\ b.backupDate # requested =>
                        home.backupInfo # null /\ home.backupInfo.date = b.backupDate
                /\ st = "error" =>
                        home.error # null /\ home.error.message = b.message
                /\ home.error = null /\ home.backupInfo = null =>
                        st = "fresh" \/ (st = "backup" /\ b.backupDate = requested)

C20_Witness ==
    /\ home.call = "done" /\ home.result # null
    /\ home.result.http = 200
    /\ home.result.body.status = "backup"
    /\ searchParamsGet(home.url.date) = Date2
    /\ home.result.body.backupDate = Date1
    /\ home.backupInfo.date = Date1

\* C25: an invocation of GET issues at most one upstream request, exactly
\* one once it is past the fetch when the date is present and none when the
\* date is missing; the snapshot is read after that single request, with no
\* second request before it.
C25_SingleAttempt ==
    \A r \in Requests :
        /\ Count(io[r], "fetch") <= 1
        /\ pc[r] \notin {"idle", "fetch"} /\ date[r] # EmptyString =>
                Count(io[r], "fetch") = 1 /\ io[r][1] = "fetch"
        /\ date[r] = EmptyString => Count(io[r], "fetch") = 0
        /\ Count(io[r], "readFile") <= 1
        /\ Count(io[r], "readFile") = 1 => io[r][Len(io[r])] = "readFile"

C25_Witness ==
    \E r \in Requests :
        /\ Answered(r) /\ Status(r) = "backup"
        /\ error[r] = "fetch failed"
        /\ io[r] = <<"fetch", "readFile">>

\* C26 (as claimed): on a store that fresh answers have filled for every
\* category, with requests served one at a time, every answer to a request
\* with a date has status fresh or backup.
C26_SnapshotAlwaysServed ==
    \A r \in Requests :
        Answered(r) /\ date[r] # EmptyString => Status(r) \in {"fresh", "backup"}

\* C28: a fresh answer to a request whose type is neither Vegetable nor
\* Fruit has one row for every upstream record, of both categories, in
\* order; its snapshot is saved in a file of that type's own, which is
\* neither category's file; and no step of such a request changes the
\* Vegetable or the Fruit file.
C28_UnknownCategory ==
    /\ [](\A r \in Requests :
            Answered(r) /\ Status(r) = "fresh" /\ type[r] \notin Types =>
                /\ Body(r).data = [i \in 1..Len(rawData[r]) |-> MarketData(rawData[r][i])]
                /\ filename(type[r]) \in DOMAIN files
                /\ filename(type[r]) \notin {filename(t) : t \in Types}
                /\ files[filename(type[r])] =
                        stringify([date |-> date[r], data |-> Body(r).data]))
    /\ [][\A r \in Requests :
            Moved(r) /\ type'[r] \notin Types =>
                \A t \in Types : FileOf(files', t) = FileOf(files, t)]_vars

\* A fresh answer of unknown type holding a vegetable and a fruit, with three
\* files in the store.
C28_Witness ==
    \E r \in Requests :
        /\ Answered(r) /\ Status(r) = "fresh" /\ type[r] = "Other"
        /\ Len(Body(r).data) = 2
        /\ {rawData[r][1].typeCode, rawData[r][2].typeCode} = {"N04", "N05"}
        /\ Cardinality(DOMAIN files) = 3

\* C21: no step of a user query (its start, the handling of a fresh, backup
\* or error answer, a rejected fetch) changes the quote rows of the page or
\* of the table; of the row-related state only the suggestion pool changes.
C21_QuoteRowsPreserved ==
    [][home'.call # home.call =>
            /\ home'.data = home.data
            /\ quoteTable' = quoteTable]_vars

C21_Witness ==
    /\ home.call = "done" /\ home.result # null
    /\ home.result.http = 200
    /\ home.result.body.status = "fresh"
    /\ Len(home.productMasterList) = 2
    /\ home.data = <<EMPTY_ROW, EMPTY_ROW>>
    /\ quoteTable.data = home.data

C24_PreloadCarriesDate ==
    \A r \in Requests :
        home.preload = "await" /\ pc[r] # "idle" => WellFormedROC(date[r])

\* C27 (as claimed): once the preload and a user query have both finished,
\* every row of the answer the query received is in the pool.
C27_NoLostPoolUpdate ==
    /\ home.preload = "done" /\ home.call = "done"
    /\ home.result # null /\ home.result.http \in 200..299
    => \A i \in 1..Len(home.result.body.data) :
            \E j \in 1..Len(home.productMasterList) :
                home.productMasterList[j] = home.result.body.data[i]

\* C22: in every state of the table each row whose quantity and salesPrice
\* both read as numbers has the subtotal of their product rounded to two
\* decimal places (half up), and a step changes the subtotal of a row only
\* when it changes the quantity or the salesPrice of that row; a row that is
\* added starts with subtotal 0 and a deletion leaves the other rows as
\* they are.
C22_SubtotalInvariant ==
    /\ [](\A i \in 1..Len(quoteTable.data) :
            LET row == quoteTable.data[i]
                q == parseFloat(row.quantity)
                p == parseFloat(row.salesPrice)
            IN q # NaN /\ p # NaN =>
                  \E c \in {(q * p) \div 10000, (q * p) \div 10000 + 1} :
                      /\ c * 10000 - 5000 <= q * p
                      /\ q * p < c * 10000 + 5000
                      /\ parseFloat(row.subtotal) = 10 * c)
    /\ [][LET old == quoteTable.data
              new == quoteTable'.data
          IN /\ Len(new) = Len(old) =>
                    \A i \in 1..Len(old) :
                        new[i].subtotal # old[i].subtotal =>
                            \/ new[i].quantity # old[i].quantity
                            \/ new[i].salesPrice # old[i].salesPrice
             /\ Len(new) > Len(old) =>
                    /\ SubSeq(new, 1, Len(old)) = old
                    /\ new[Len(new)].subtotal = "0"
             /\ Len(new) < Len(old) =>
                    \E i \in 1..Len(old) :
                        new = SubSeq(old, 1, i - 1) \o SubSeq(old, i + 1, Len(old))]_vars

\* Half of 0.25 is 0.125 and shows as 0.13, next to a row whose quantity is
\* not a number and whose subtotal is the one of an earlier edit.
C22_Witness ==
    /\ Len(quoteTable.data) = 2
    /\ quoteTable.data[1].quantity = "0.5"
    /\ quoteTable.data[1].salesPrice = "0.25"
    /\ quoteTable.data[1].subtotal = "0.13"
    /\ quoteTable.data[2].quantity = "abc"
    /\ quoteTable.data[2].salesPrice = "0"
    /\ quoteTable.data[2].subtotal = "0.25"

RECURSIVE WeightSum(_, _)
\* The sum over the first n rows of quantity times unit factor, in
\* millionths of a kilogram; a quantity that is not a number counts 0.
WeightSum(rows, n) ==
    IF n = 0 THEN 0
    ELSE LET q == parseFloat(rows[n].quantity)
             f == CASE rows[n].unit = "kg" -> 1000
                    [] rows[n].unit = "g" -> 1
                    [] rows[n].unit = "catty" -> 600
         IN WeightSum(rows, n - 1) + (IF q = NaN THEN 0 ELSE q * f)

\* A number of thousandths written with three decimals.
Decimal3(t) == ToString(t \div 1000) \o "." \o Pad3(t % 1000)

====
